---------------------------- MODULE Spec2Model ----------------------------
(***************************************************************************)
(* A model of the camera classes of DeepLabCut-live-GUI:                   *)
(*   dlclivegui/camera/sentech_usb.py  (SentechCam, the SDK backend)       *)
(*   dlclivegui/camera/mac_opencv.py   (Mac_OpenCVCam, the generic one)    *)
(*                                                                         *)
(* Time is counted in ticks of 1/TicksPerSecond seconds.  Python's None,   *)
(* 0 and the empty list are all falsy; None and [] are written <<>> for    *)
(* the list-valued arguments and None (0) for the numeric ones.            *)
(***************************************************************************)
EXTENDS Integers, Sequences, FiniteSets, TLC

\* ------------------------------------------------------------- bounds
\* The ticks after the start within which the caller may delay a call or an
\* acquisition may take time (runs without such delays are bounded by
\* MaxFrames instead).
DelayHorizon == 14
\* The number of frames a session delivers.
MaxFrames == 102
\* Device indices of the platform are 0..MaxDev.
MaxDev == 5
\* In the session specification: the ticks after the start that are
\* followed, and the number of frames a session delivers.
SessionHorizon == 3
SessionFrames == 2

\* ---------------------------------------------------------- constants
\* fps=None, exposure=None, gain=None: the falsy numeric default.
None == 0
\* The file-source marker of the generic backend.
FileSource == -1

\* The frame rates the model draws target_fps from.
FpsValues == {10, 15, 30}
\* The clock's resolution: 1.0/fps and 0.5/fps are whole numbers of ticks
\* for every fps of FpsValues.
TicksPerSecond == 2 * 30
\* time.time() when the model starts: one second past the clock's epoch
\* (the pacing variable starts at 0, the epoch itself).
Start == TicksPerSecond

VARIABLES
    backend,    \* "Sentech" or "Mac": the class the session is made of
    args,       \* the constructor's arguments (the Device Configuration)
    self,       \* the object's attributes, a function of those assigned
    phase,      \* "NoObject", "Constructed", "Opened", "Closed"
    pc,         \* where get_image_on_time is: "idle" when not in a call
    err,        \* the exception the last call raised, "none" if none
    now,        \* time.time()
    cur_time,   \* get_image_on_time's local
    frame,      \* get_image_on_time's local
    raw,        \* what the device delivered last (history)
    ret,        \* what the last successful get_image_on_time returned
    hw,         \* the platform: devices present, in use, SDK calls made
    hist,       \* history of the deliveries (no code reads it)
    disc        \* arg_restrictions' locals and position

vars == <<backend, args, self, phase, pc, err, now, cur_time, frame, raw,
          ret, hw, hist, disc>>

\* ------------------------------------------------------------ helpers
Max(a, b) == IF a >= b THEN a ELSE b
Min(a, b) == IF a <= b THEN a ELSE b

\* obj.name = value
SetAttr(obj, name, value) == (name :> value) @@ obj
HasAttr(obj, name) == name \in DOMAIN obj

\* 1.0 / fps and 0.5 / fps, in ticks
Period(fps) == TicksPerSecond \div fps
HalfPeriod(fps) == TicksPerSecond \div (2 * fps)

\* ------------------------------------------------------------- frames
NoFrame == [h |-> 0, w |-> 0, px |-> <<>>, ndim |-> 0, order |-> "none"]

\* A frame of h rows and w columns as the device delivers it: every pixel
\* is named by its place in the raw frame.
RawFrame(h, w, ndim, order) ==
    [h |-> h, w |-> w,
     px |-> [i \in 1..h |-> [j \in 1..w |-> (i - 1) * w + j]],
     ndim |-> ndim, order |-> order]

\* One quarter turn clockwise: the canvas becomes w rows by h columns.
Rot90(f) ==
    [f EXCEPT !.h = f.w, !.w = f.h,
              !.px = [i \in 1..f.w |-> [j \in 1..f.h |-> f.px[f.h - j + 1][i]]]]

RECURSIVE RotTimes(_, _)
RotTimes(f, n) == IF n = 0 THEN f ELSE RotTimes(Rot90(f), n - 1)

\* imutils.rotate_bound(frame, angle), for the right angles
rotate_bound(f, angle) == RotTimes(f, (angle \div 90) % 4)

\* Python's a[lo:hi] on a sequence of length n: the 0-based bounds after
\* negative indices are wrapped and both are clamped.
SliceLo(n, lo) == IF lo < 0 THEN Max(lo + n, 0) ELSE Min(lo, n)
SliceLen(n, lo, hi) == Max(SliceLo(n, hi) - SliceLo(n, lo), 0)

\* frame[t:b, l:r]
Slice2(f, t, b, l, r) ==
    LET nh == SliceLen(f.h, t, b)
        nw == SliceLen(f.w, l, r)
        r0 == SliceLo(f.h, t)
        c0 == SliceLo(f.w, l)
    IN [f EXCEPT !.h = nh, !.w = nw,
                 !.px = [i \in 1..nh |-> [j \in 1..nw |-> f.px[r0 + i][c0 + j]]]]

\* cv2.cvtColor(frame, cv2.COLOR_RGB2BGR): the first and third channel swap
cvtColor(f) == [f EXCEPT !.order = IF f.order = "RGB" THEN "BGR" ELSE "RGB"]


\* np.uint8(...): every pixel value is kept modulo 2^8
uint8(f) == [f EXCEPT !.px = [i \in 1..f.h |-> [j \in 1..f.w |-> f.px[i][j] % 256]]]

\* ------------------------------------------------------ configurations
Truthy(seq) == seq # <<>>

\* [left, right, top, bottom]
Crops == {<<>>, <<0, 2, 1, 3>>, <<1, 4, 0, 2>>}
\* (width, height)
Resolutions == {<<>>, <<4, 3>>}
Rotations == {0, 90}
\* auto_exposure, exposure and gain: all disabled, or all set
Knobs == {[auto_exposure |-> 0, exposure |-> None, gain |-> None],
          [auto_exposure |-> 1, exposure |-> 5, gain |-> 7]}

Config(dev, res, knob, rot, crop, fps) ==
    [device |-> dev, sdk_path |-> "sdk", resolution |-> res,
     auto_exposure |-> knob.auto_exposure, exposure |-> knob.exposure,
     gain |-> knob.gain, rotate |-> rot, crop |-> crop, fps |-> fps,
     display |-> TRUE, display_resize |-> 1]

\* The configurations of the session specification.  The generic backend's
\* always carry a resolution (its default is [1280, 720]).
SessionConfigs ==
    {Config(dev, res, knob, rot, crop, fps) :
        dev \in {FileSource, 0, 1}, res \in Resolutions, knob \in Knobs,
        rot \in Rotations, crop \in Crops, fps \in {None, 30}}

\* The configurations of the pacing specification: an SDK session that opens.
PacingConfigs ==
    {Config(0, <<4, 3>>, knob, 0, <<>>, fps) : knob \in {CHOOSE k \in Knobs : k.gain = None},
                                                fps \in FpsValues}

\* The frames a device may deliver: (rows, columns), grey or colour.
RawSizes == {<<3, 4>>, <<4, 3>>}
RawFrames(order) ==
    {RawFrame(s[1], s[2], nd, order) : s \in RawSizes, nd \in {2, 3}}

\* ------------------------------------------------------------ history
\* count: frames returned; lastTs, prevTs: the last two timestamps returned;
\* prevNext: the pacing variable before the last return; btb: no time has
\* passed but in the busy-wait; t0: the time of the first call; win: a window
\* of consecutive frames (its first timestamp, its length, the index of its
\* first frame); failed: how the last call failed ("acquire": the device
\* gave no frame, "after": an exception after the frame was there); acq: the
\* acquisitions the call in progress (or the last one) has started; pollAt:
\* the clock when the acquisition was started; acqAt: the clock when the
\* device last delivered a frame.
NoWindow == [start |-> 0, frames |-> 0, first |-> 0]
InitHist == [count |-> 0, lastTs |-> 0, prevTs |-> 0, prevNext |-> 0,
             btb |-> TRUE, t0 |-> 0, win |-> NoWindow, failed |-> "none",
             acq |-> 0, pollAt |-> 0, acqAt |-> 0]

\* A frame stamped ts is returned.  The window of consecutive frames that
\* is followed either goes on or starts again at this frame.
Delivered(ts, nextBefore, restart) ==
    [hist EXCEPT !.count = @ + 1, !.prevTs = hist.lastTs, !.lastTs = ts,
                 !.prevNext = nextBefore,
                 !.win = IF restart \/ hist.win.frames = 0
                         THEN [start |-> ts, frames |-> 1, first |-> hist.count]
                         ELSE [@ EXCEPT !.frames = @ + 1]]

\* -------------------------------------------------------------- state
NoCap == [dev |-> FileSource, open |-> FALSE]
NoRet == [frame |-> NoFrame, timestamp |-> 0]
NoDisc == [pc |-> "start", devs |-> <<>>, avail |-> FALSE, cap |-> NoCap,
           cur_index |-> 0, opened |-> {}, probed |-> <<>>, result |-> <<>>]

InitWith(b, a, present) ==
    /\ backend = b
    /\ args = a
    /\ self = <<>>
    /\ phase = "NoObject"
    /\ pc = "idle"
    /\ err = "none"
    /\ now = Start
    /\ cur_time = 0
    /\ frame = NoFrame
    /\ raw = NoFrame
    /\ ret = NoRet
    /\ hw = [present |-> present, inUse |-> {}, systems |-> 0, cameras |-> 0,
             applied |-> {}]
    /\ hist = InitHist
    /\ disc = NoDisc

Init ==
    \E b \in {"Sentech", "Mac"}, a \in SessionConfigs :
        /\ b = "Mac" => Truthy(a.resolution)
        /\ InitWith(b, a, {0})

\* --------------------------------------------- SentechCam.__init__
\* A slip of set_im_size: a missing resolution is stored, not refused.
set_im_size_unchecked(obj, res) ==
    [raised |-> "none", obj |-> SetAttr(obj, "im_size", res)]

\* set_im_size(res) on the attributes obj: what it raises, and obj after it
set_im_size(obj, res) ==
    IF ~Truthy(res)
    THEN [raised |-> "CameraError", obj |-> obj]
    ELSE [raised |-> "none",
          obj |-> SetAttr(obj, "im_size",
                     IF obj.crop = <<>>
                     THEN <<res[1], res[2]>>
                     ELSE <<obj.crop[4] - obj.crop[3], obj.crop[2] - obj.crop[1]>>)]

\* The attributes assigned before set_im_size is called (lines 70..75)
SentechCam_fields(a) ==
    [id |-> a.device, sdk_path |-> a.sdk_path, exposure |-> a.exposure,
     gain |-> a.gain, rotate |-> a.rotate,
     crop |-> IF Truthy(a.crop) THEN a.crop ELSE <<>>]

SentechCam_init ==
    /\ backend = "Sentech" /\ phase = "NoObject" /\ err = "none"
    /\ LET r == set_im_size(SentechCam_fields(args), args.resolution)
       IN IF r.raised # "none"
          THEN /\ self' = r.obj
               /\ err' = r.raised
               /\ phase' = phase
          ELSE /\ self' = [fps |-> args.fps, use_tk_display |-> args.display,
                           display_resize |-> IF args.display_resize # 0
                                              THEN args.display_resize ELSE 1,
                           next_frame |-> 0] @@ r.obj
               /\ err' = "none"
               /\ phase' = "Constructed"
    /\ UNCHANGED <<backend, args, pc, now, cur_time, frame, raw, ret, hw, hist, disc>>

\* --------------------------------------- SentechCam.set_capture_device
SentechCam_set_capture_device ==
    /\ backend = "Sentech" /\ phase = "Constructed" /\ err = "none"
    /\ IF self.id \in hw.present \ hw.inUse
       THEN /\ self' = SetAttr(self, "cap", [dev |-> self.id, open |-> TRUE])
            /\ hw' = [hw EXCEPT
                        !.systems = @ + 1, !.cameras = @ + 1,
                        !.inUse = @ \cup {self.id},
                        !.applied =
                            (IF Truthy(self.im_size) THEN {<<"image_shape", self.im_size>>} ELSE {})
                            \cup (IF self.exposure # 0 THEN {<<"exposure", self.exposure>>} ELSE {})
                            \cup (IF self.gain # 0 THEN {<<"gain", self.gain>>} ELSE {})]
            /\ phase' = "Opened"
            /\ err' = "none"
       ELSE \* system.get_camera raises: no such camera
            /\ hw' = [hw EXCEPT !.systems = @ + 1]
            /\ err' = "SDKError"
            /\ UNCHANGED <<self, phase>>
    /\ UNCHANGED <<backend, args, pc, now, cur_time, frame, raw, ret, hist, disc>>

\* ---------------------------------------- SentechCam.get_image_on_time
\* Three slips of the update below: the half-period guard is left out; the
\* slot is counted from the time of the poll; the full period is left out.
NextFrameTime_slotOnly(next_frame, cur, fps) == next_frame + Period(fps)
NextFrameTime_fromNow(next_frame, cur, fps) == cur + Period(fps)
NextFrameTime_halfOnly(next_frame, cur, fps) == cur + HalfPeriod(fps)

\* max(self.next_frame + 1.0 / self.fps, cur_time + 0.5 / self.fps)
NextFrameTime(next_frame, cur, fps) ==
    Max(next_frame + Period(fps), cur + HalfPeriod(fps))

\* A slip of the timestamp: the clock is read again after the grab.
Timestamp_afterGrab(cur, clock) == clock

\* timestamp = cur_time (line 138): the value the poll read, not the clock's
Timestamp(cur, clock) == cur

\* SentechCam.get_image: the grabbed frame as an array of bytes
get_image(grabbed) == uint8(grabbed)

\* The call starts: frame = None, and the loop is entered.
SentechCam_call(frames) ==
    /\ backend = "Sentech" /\ phase = "Opened" /\ pc = "idle"
    /\ hist.count < frames
    /\ pc' = "loop"
    /\ err' = "none"
    /\ frame' = NoFrame
    /\ hist' = [hist EXCEPT !.t0 = IF @ = 0 THEN now ELSE @, !.failed = "none",
                             !.acq = 0]
    /\ UNCHANGED <<backend, args, self, phase, now, cur_time, raw, ret, hw, disc>>

\* A slip of the loop: the clock is read on entering the loop only, and the
\* later turns compare the value read then.
SentechCam_poll_clockReadOnce ==
    /\ backend = "Sentech" /\ pc \in {"loop", "spin"}
    /\ cur_time' = IF pc = "loop" THEN now ELSE cur_time
    /\ pc' = IF cur_time' > self.next_frame THEN "grab" ELSE "spin"
    /\ hist' = IF cur_time' > self.next_frame
               THEN [hist EXCEPT !.acq = @ + 1, !.pollAt = cur_time']
               ELSE hist
    /\ UNCHANGED <<backend, args, self, phase, err, now, frame, raw, ret, hw, disc>>

\* One turn of the loop: the clock is read and compared (lines 135, 136).
SentechCam_poll ==
    /\ backend = "Sentech" /\ pc \in {"loop", "spin"}
    /\ cur_time' = now
    /\ pc' = IF now > self.next_frame THEN "grab" ELSE "spin"
    /\ hist' = IF now > self.next_frame
               THEN [hist EXCEPT !.acq = @ + 1, !.pollAt = now]
               ELSE hist
    /\ UNCHANGED <<backend, args, self, phase, err, now, frame, raw, ret, hw, disc>>

\* get_image returns (lines 137..143).  With fps None the division raises
\* after the frame was grabbed.
SentechCam_grabbed(grabs, restarts) ==
    /\ backend = "Sentech" /\ pc = "grab"
    /\ \E g \in grabs, restart \in restarts :
        /\ raw' = g
        /\ frame' = get_image(g)
        /\ IF self.fps = None
           THEN /\ err' = "TypeError"
                /\ hist' = [hist EXCEPT !.failed = "after", !.acqAt = now]
                /\ UNCHANGED <<self, ret>>
           ELSE /\ self' = [self EXCEPT !.next_frame =
                                NextFrameTime(self.next_frame, cur_time, self.fps)]
                /\ ret' = [frame |-> get_image(g),
                           timestamp |-> Timestamp(cur_time, now)]
                /\ hist' = [Delivered(Timestamp(cur_time, now), self.next_frame, restart)
                                EXCEPT !.acqAt = now]
                /\ err' = "none"
    /\ pc' = "idle"
    /\ UNCHANGED <<backend, args, phase, now, cur_time, hw, disc>>

\* A slip of the failure path: the exception is swallowed, frame stays None
\* and the while loop of line 134 polls and grabs again.
SentechCam_grab_fails_retry ==
    /\ backend = "Sentech" /\ pc = "grab"
    /\ pc' = "loop"
    /\ UNCHANGED <<backend, args, self, phase, err, now, cur_time, frame, raw, ret,
                   hw, hist, disc>>

\* self.cap.grab_frame() raises: the SDK's exception leaves the call as it is.
SentechCam_grab_fails ==
    /\ backend = "Sentech" /\ pc = "grab"
    /\ err' = "SDKError"
    /\ pc' = "idle"
    /\ hist' = [hist EXCEPT !.failed = "acquire"]
    /\ UNCHANGED <<backend, args, self, phase, now, cur_time, frame, raw, ret, hw, disc>>

\* SentechCam.close_capture_device
SentechCam_close_capture_device ==
    /\ backend = "Sentech" /\ phase = "Opened" /\ pc = "idle"
    /\ self' = [self EXCEPT !.cap.open = FALSE]
    /\ hw' = [hw EXCEPT !.inUse = @ \ {self.cap.dev}]
    /\ phase' = "Closed"
    /\ UNCHANGED <<backend, args, pc, err, now, cur_time, frame, raw, ret, hist, disc>>

\* ------------------------------------------------------------- clock
\* The busy-wait has read the clock at this very tick and found it too early.
Spinning == pc = "spin" /\ cur_time = now

\* The clock advances while the loop spins: no time is lost.
SpinTick(horizon) ==
    /\ Spinning
    /\ hist.btb \/ now < Start + horizon
    /\ now' = now + 1
    /\ UNCHANGED <<backend, args, self, phase, pc, err, cur_time, frame, raw, ret, hw, hist, disc>>

\* The clock advances anywhere else: the caller waits between calls, the
\* acquisition or the normalization takes time, or the loop is late to poll.
Tick(horizon) ==
    /\ ~Spinning
    /\ now < Start + horizon
    /\ now' = now + 1
    /\ hist' = [hist EXCEPT !.btb = FALSE]
    /\ UNCHANGED <<backend, args, self, phase, pc, err, cur_time, frame, raw, ret, hw, disc>>

\* ------------------------------------------------ Mac_OpenCVCam.__init__
\* Camera.__init__, the base class: the configuration is stored and the
\* effective frame size is the crop's when a crop is set, else the resolution.
Camera_init(id, a) ==
    [id |-> id, exposure |-> a.exposure, rotate |-> a.rotate,
     crop |-> IF Truthy(a.crop) THEN a.crop ELSE <<>>,
     im_size |-> IF Truthy(a.crop)
                 THEN <<a.crop[2] - a.crop[1], a.crop[4] - a.crop[3]>>
                 ELSE a.resolution,
     fps |-> a.fps, use_tk_display |-> a.display,
     display_resize |-> a.display_resize]

\* What the constructor raises for this device argument (lines 50..58):
\* the name DLCLiveCameraError is bound nowhere in the module.
Mac_OpenCVCam_rejects(device) ==
    IF device # FileSource THEN "none" ELSE "NameError"

Mac_OpenCVCam_init ==
    /\ backend = "Mac" /\ phase = "NoObject" /\ err = "none"
    /\ IF Mac_OpenCVCam_rejects(args.device) = "none"
       THEN /\ self' = [video |-> FALSE, auto_exposure |-> args.auto_exposure,
                        gain |-> args.gain] @@ Camera_init(args.device, args)
            /\ phase' = "Constructed"
            /\ err' = "none"
       ELSE /\ err' = Mac_OpenCVCam_rejects(args.device)
            /\ UNCHANGED <<self, phase>>
    /\ UNCHANGED <<backend, args, pc, now, cur_time, frame, raw, ret, hw, hist, disc>>

\* ------------------------------------ Mac_OpenCVCam.set_capture_device
\* cv2.VideoCapture(index): the handle is open when the device is there and free
VideoCapture_open(index) == index \in hw.present \ hw.inUse

\* A slip of the opening: the rate the device reports is stored over the
\* configured one (the assignments of lines 98, 99, taken for live devices).
Mac_OpenCVCam_set_capture_device_readsBack ==
    /\ backend = "Mac" /\ phase = "Constructed" /\ err = "none"
    /\ LET opened == VideoCapture_open(self.id)
           sets == (IF Truthy(self.im_size)
                    THEN {<<"FRAME_WIDTH", self.im_size[1]>>, <<"FRAME_HEIGHT", self.im_size[2]>>}
                    ELSE {})
                   \cup (IF self.auto_exposure # 0 THEN {<<"AUTO_EXPOSURE", self.auto_exposure>>} ELSE {})
                   \cup (IF self.exposure # 0 THEN {<<"EXPOSURE", self.exposure>>} ELSE {})
                   \cup (IF self.gain # 0 THEN {<<"GAIN", self.gain>>} ELSE {})
                   \cup (IF self.fps # 0 THEN {<<"FPS", self.fps>>} ELSE {})
       IN \E mode \in IF opened THEN {0, 1} ELSE {0} :
            /\ self' = [cap |-> [dev |-> self.id, open |-> opened],
                        cv2_color |-> mode] @@
                       (IF self.video THEN SetAttr(self, "last_cap_read", 0)
                        ELSE [self EXCEPT !.fps = IF opened THEN 30 ELSE @])
            /\ hw' = [hw EXCEPT !.inUse = IF opened THEN @ \cup {self.id} ELSE @,
                                !.applied = IF opened /\ ~self.video THEN sets ELSE @]
    /\ phase' = "Opened"
    /\ UNCHANGED <<backend, args, pc, err, now, cur_time, frame, raw, ret, hist, disc>>

Mac_OpenCVCam_set_capture_device ==
    /\ backend = "Mac" /\ phase = "Constructed" /\ err = "none"
    /\ LET opened == VideoCapture_open(self.id)
           sets == (IF Truthy(self.im_size)
                    THEN {<<"FRAME_WIDTH", self.im_size[1]>>, <<"FRAME_HEIGHT", self.im_size[2]>>}
                    ELSE {})
                   \cup (IF self.auto_exposure # 0 THEN {<<"AUTO_EXPOSURE", self.auto_exposure>>} ELSE {})
                   \cup (IF self.exposure # 0 THEN {<<"EXPOSURE", self.exposure>>} ELSE {})
                   \cup (IF self.gain # 0 THEN {<<"GAIN", self.gain>>} ELSE {})
                   \cup (IF self.fps # 0 THEN {<<"FPS", self.fps>>} ELSE {})
       IN \E mode \in IF opened THEN {0, 1} ELSE {0} :
            /\ self' = [cap |-> [dev |-> self.id, open |-> opened],
                        cv2_color |-> mode] @@
                       (IF self.video THEN SetAttr(self, "last_cap_read", 0) ELSE self)
            /\ hw' = [hw EXCEPT !.inUse = IF opened THEN @ \cup {self.id} ELSE @,
                                !.applied = IF opened /\ ~self.video THEN sets ELSE @]
    /\ phase' = "Opened"
    /\ UNCHANGED <<backend, args, pc, err, now, cur_time, frame, raw, ret, hist, disc>>

\* ------------------------------------- Mac_OpenCVCam.get_image_on_time
\* A slip of the normalization: the crop is taken before the rotation.
Mac_OpenCVCam_normalize_cropFirst(obj, f) ==
    LET cropped == IF Truthy(obj.crop)
                   THEN Slice2(f, obj.crop[3], obj.crop[4], obj.crop[1], obj.crop[2])
                   ELSE f
        rotated == IF obj.rotate # 0 THEN rotate_bound(cropped, obj.rotate) ELSE cropped
    IN IF rotated.ndim = 3 /\ obj.cv2_color = 1 THEN cvtColor(rotated) ELSE rotated

\* Lines 116..123: rotate, then crop, then the channel order
Mac_OpenCVCam_normalize(obj, f) ==
    LET rotated == IF obj.rotate # 0 THEN rotate_bound(f, obj.rotate) ELSE f
        cropped == IF Truthy(obj.crop)
                   THEN Slice2(rotated, obj.crop[3], obj.crop[4], obj.crop[1], obj.crop[2])
                   ELSE rotated
    IN IF cropped.ndim = 3 /\ obj.cv2_color = 1 THEN cvtColor(cropped) ELSE cropped

\* The frames the opened device delivers, in its native channel order
Mac_OpenCVCam_frames == RawFrames(IF self.cv2_color = 1 THEN "RGB" ELSE "BGR")

\* The call starts and reaches the blocking read (a video source first waits
\* until a period has passed since the last read).
Mac_OpenCVCam_call(frames) ==
    /\ backend = "Mac" /\ phase = "Opened" /\ pc = "idle"
    /\ hist.count < frames
    /\ self.video => now - self.last_cap_read >= Period(self.fps)
    /\ pc' = "read"
    /\ err' = "none"
    /\ frame' = NoFrame
    /\ hist' = [hist EXCEPT !.t0 = IF @ = 0 THEN now ELSE @, !.failed = "none",
                             !.acq = 1, !.pollAt = now]
    /\ UNCHANGED <<backend, args, self, phase, now, cur_time, raw, ret, hw, disc>>

\* self.cap.read() returns a frame, which is normalized (lines 113..123).
Mac_OpenCVCam_read ==
    /\ backend = "Mac" /\ pc = "read"
    /\ self.cap.open
    /\ \E f \in Mac_OpenCVCam_frames :
        /\ raw' = f
        /\ frame' = Mac_OpenCVCam_normalize(self, f)
    /\ pc' = "stamp"
    /\ hist' = [hist EXCEPT !.acqAt = now]
    /\ UNCHANGED <<backend, args, self, phase, err, now, cur_time, ret, hw, disc>>

\* self.cap.read() returns no frame (line 129).
Mac_OpenCVCam_read_fails ==
    /\ backend = "Mac" /\ pc = "read"
    /\ err' = "CameraError"
    /\ pc' = "idle"
    /\ hist' = [hist EXCEPT !.failed = "acquire"]
    /\ UNCHANGED <<backend, args, self, phase, now, cur_time, frame, raw, ret, hw, disc>>

\* The clock is read and the pair returned (lines 125..127).
Mac_OpenCVCam_stamp ==
    /\ backend = "Mac" /\ pc = "stamp"
    /\ self' = SetAttr(self, "last_cap_read", now)
    /\ ret' = [frame |-> frame, timestamp |-> now]
    /\ hist' = Delivered(now, IF HasAttr(self, "last_cap_read") THEN self.last_cap_read ELSE 0, FALSE)
    /\ pc' = "idle"
    /\ UNCHANGED <<backend, args, phase, err, now, cur_time, frame, raw, hw, disc>>

\* Mac_OpenCVCam.close_capture_device
Mac_OpenCVCam_close_capture_device ==
    /\ backend = "Mac" /\ phase = "Opened" /\ pc = "idle"
    /\ self' = [self EXCEPT !.cap.open = FALSE]
    /\ hw' = [hw EXCEPT !.inUse = IF self.cap.open THEN @ \ {self.cap.dev} ELSE @]
    /\ phase' = "Closed"
    /\ UNCHANGED <<backend, args, pc, err, now, cur_time, frame, raw, ret, hist, disc>>

\* ---------------------------------------------- session specification
Next ==
    \/ SentechCam_init
    \/ SentechCam_set_capture_device
    \/ SentechCam_call(SessionFrames)
    \/ SentechCam_poll
    \/ SentechCam_grabbed(RawFrames("RGB"), {FALSE})
    \/ SentechCam_grab_fails
    \/ SentechCam_close_capture_device
    \/ Mac_OpenCVCam_init
    \/ Mac_OpenCVCam_set_capture_device
    \/ Mac_OpenCVCam_call(SessionFrames)
    \/ Mac_OpenCVCam_read
    \/ Mac_OpenCVCam_read_fails
    \/ Mac_OpenCVCam_stamp
    \/ Mac_OpenCVCam_close_capture_device
    \/ SpinTick(SessionHorizon)
    \/ Tick(SessionHorizon)

Spec == Init /\ [][Next]_vars

\* ----------------------------------------------- pacing specification
\* An SDK session whose calls are followed over many frames.  A run in which
\* the only time that passes is the busy-wait's (hist.btb) goes on for
\* MaxFrames frames; other runs end DelayHorizon ticks after the start.
InitPacing ==
    \E a \in PacingConfigs : InitWith("Sentech", a, {0})

NextPacing ==
    \/ SentechCam_init
    \/ SentechCam_set_capture_device
    \/ SentechCam_call(MaxFrames)
    \/ SentechCam_poll
    \/ SentechCam_grabbed({RawFrame(3, 4, 3, "RGB")}, BOOLEAN)
    \/ SentechCam_grab_fails
    \/ SentechCam_close_capture_device
    \/ SpinTick(DelayHorizon)
    \/ Tick(DelayHorizon)

SpecPacing == InitPacing /\ [][NextPacing]_vars

\* ---------------------------------------------- liveness specification
\* An SDK session whose device always delivers, followed for LiveFrames
\* frames.  The caller, the grab and a late poll take time during the first
\* LiveHorizon ticks; the busy-wait's clock advances for as long as a call
\* waits (no run waits past LiveSpinHorizon).  Fairness: the loop of lines
\* 134..141 is running code, so its next turn is taken; the clock advances
\* while the loop spins; grab_frame() returns.
LiveFrames == 3
LiveHorizon == 8
LiveSpinHorizon == LiveHorizon + (LiveFrames + 1) * TicksPerSecond

NextLive ==
    \/ SentechCam_init
    \/ SentechCam_set_capture_device
    \/ SentechCam_call(LiveFrames)
    \/ SentechCam_poll
    \/ SentechCam_grabbed({RawFrame(3, 4, 3, "RGB")}, {FALSE})
    \/ SentechCam_close_capture_device
    \/ SpinTick(LiveSpinHorizon)
    \/ Tick(LiveHorizon)

SpecLive ==
    /\ InitPacing /\ [][NextLive]_vars
    /\ WF_vars(SentechCam_poll)
    /\ WF_vars(SpinTick(LiveSpinHorizon))
    /\ WF_vars(SentechCam_grabbed({RawFrame(3, 4, 3, "RGB")}, {FALSE}))

\* ------------------------------------ Mac_OpenCVCam.arg_restrictions
\* A slip of the release: the handle stays open.
VideoCapture_release_skipped(cap) == cap

\* cap.release(): the handle after it
VideoCapture_release(cap) == [cap EXCEPT !.open = FALSE]

\* Lines 24..26: the handle is made, the list starts as [0].
arg_restrictions_start ==
    /\ disc.pc = "start"
    /\ disc' = [disc EXCEPT !.pc = "loop", !.cap = NoCap, !.devs = <<0>>,
                            !.avail = TRUE, !.opened = {}, !.probed = <<>>]
    /\ UNCHANGED <<backend, args, self, phase, pc, err, now, cur_time, frame, raw, ret, hw, hist>>

\* Lines 27..29: the index after the last one listed is opened.
arg_restrictions_open ==
    /\ disc.pc = "loop" /\ disc.avail
    /\ LET cur == disc.devs[Len(disc.devs)] + 1
           ok == VideoCapture_open(cur)
       IN /\ disc' = [disc EXCEPT !.cur_index = cur, !.avail = ok,
                                  !.probed = Append(@, cur),
                                  !.cap = IF ok THEN [dev |-> cur, open |-> TRUE] ELSE @,
                                  !.opened = IF ok THEN @ \cup {cur} ELSE @,
                                  !.pc = IF ok THEN "listed" ELSE "loop"]
          /\ hw' = [hw EXCEPT !.inUse = IF ok THEN @ \cup {cur} ELSE @]
    /\ UNCHANGED <<backend, args, self, phase, pc, err, now, cur_time, frame, raw, ret, hist>>

\* Lines 30..32: the index is listed and the handle released.
arg_restrictions_release ==
    /\ disc.pc = "listed"
    /\ LET after == VideoCapture_release(disc.cap)
       IN /\ disc' = [disc EXCEPT !.devs = Append(@, disc.cur_index),
                                  !.cap = after, !.pc = "loop"]
          /\ hw' = [hw EXCEPT !.inUse = IF after.open THEN @ ELSE @ \ {disc.cap.dev}]
    /\ UNCHANGED <<backend, args, self, phase, pc, err, now, cur_time, frame, raw, ret, hist>>

\* Line 34: the loop has ended, the restrictions are returned.
arg_restrictions_return ==
    /\ disc.pc = "loop" /\ ~disc.avail
    /\ disc' = [disc EXCEPT !.pc = "done", !.result = <<TRUE, FALSE>>]
    /\ UNCHANGED <<backend, args, self, phase, pc, err, now, cur_time, frame, raw, ret, hw, hist>>

\* -------------------------------------------- discovery specification
\* The devices present are any of 0..MaxDev; once the restrictions are
\* returned a generic session on device 0 is made and opened.
InitDiscover ==
    \E present \in SUBSET (0..MaxDev), knob \in Knobs :
        InitWith("Mac", Config(0, <<4, 3>>, knob, 0, <<>>, 30), present)

ConstructAfterDiscover == disc.pc = "done" /\ Mac_OpenCVCam_init

NextDiscover ==
    \/ arg_restrictions_start
    \/ arg_restrictions_open
    \/ arg_restrictions_release
    \/ arg_restrictions_return
    \/ ConstructAfterDiscover
    \/ Mac_OpenCVCam_set_capture_device
    \/ Mac_OpenCVCam_close_capture_device

SpecDiscover == InitDiscover /\ [][NextDiscover]_vars

\* ========================================================= properties
Abs(x) == IF x < 0 THEN -x ELSE x
\* The time between the first and the last timestamp of the window followed
Elapsed == hist.lastTs - hist.win.start

\* C1 (SpecPacing): on the SDK backend, whatever time the acquisitions and
\* the caller take, two timestamps returned one after the other are at
\* least 0.5/F apart (times fps: 2 * F * difference >= one second).
C1_ConsecutiveTimestampsHalfPeriodApart ==
    (backend = "Sentech" /\ hist.count >= 2)
        => 2 * self.fps * (hist.lastTs - hist.prevTs) >= TicksPerSecond

\* C1's case: at 10 fps a late frame is followed by the next as early as the
\* guard allows, one tick past half a period.
C1_Witness ==
    /\ backend = "Sentech" /\ hist.count >= 2 /\ ~hist.btb
    /\ self.fps = 10
    /\ 2 * self.fps * (hist.lastTs - hist.prevTs - 1) = TicksPerSecond

\* C2 as stated: over ANY 100 or more consecutive frames of a back-to-back
\* run the time from the first to the last timestamp is (N-1)/F up to one
\* poll tick.
C2_AnyLongWindowSpansFullPeriods ==
    (hist.btb /\ hist.win.frames >= 100)
        => Abs(self.fps * Elapsed - (hist.win.frames - 1) * TicksPerSecond) <= self.fps

\* C2 (SpecPacing), amended: in a back-to-back run with instantaneous
\* acquisition next_frame advances by exactly 1/F at every frame from the
\* second on; 100 or more consecutive frames that start after the session's
\* first frame span (N-1)/F up to one poll tick, and those that start with
\* the session's first frame span (N-1.5)/F up to one poll tick; and in no
\* run do m+1 consecutive frames span less than (m-0.5)/F.
C2_NoDriftNeverFaster ==
    /\ (hist.btb /\ hist.count >= 2)
          => self.fps * (self.next_frame - hist.prevNext) = TicksPerSecond
    /\ (hist.btb /\ hist.win.frames >= 100 /\ hist.win.first >= 1)
          => Abs(self.fps * Elapsed - (hist.win.frames - 1) * TicksPerSecond) <= self.fps
    /\ (hist.btb /\ hist.win.frames >= 100 /\ hist.win.first = 0)
          => Abs(2 * self.fps * Elapsed - (2 * hist.win.frames - 3) * TicksPerSecond)
                <= 2 * self.fps
    /\ hist.win.frames >= 2
          => 2 * self.fps * Elapsed >= (2 * (hist.win.frames - 1) - 1) * TicksPerSecond

\* C2's case: a hundred consecutive frames at 10 fps, starting after the
\* session's first frame, in a back-to-back run.
C2_Witness ==
    /\ hist.btb /\ hist.win.frames >= 100 /\ hist.win.first >= 1
    /\ self.fps = 10

\* C3 (SpecPacing): a fresh session at 10 fps whose acquisitions take no
\* time, called back to back: one second after the first call 9 to 11 frames
\* have been returned.
C3_TenFramesInOneSecond ==
    (hist.btb /\ hist.t0 > 0 /\ self.fps = 10 /\ now = hist.t0 + TicksPerSecond)
        => hist.count \in 9..11

\* C3's case: the second has passed in such a run, and the frames are there.
C3_Witness ==
    /\ hist.btb /\ hist.t0 > 0 /\ self.fps = 10 /\ now = hist.t0 + TicksPerSecond
    /\ hist.count = 11
    /\ pc = "spin"

\* C4 as stated (Spec): a call whose acquisition fails raises the library's
\* camera error and leaves the session Opened, with every attribute (the
\* pacing variable and the device handle among them) as it was.
C4_AcquisitionFailureIsCameraError ==
    [][(hist.failed = "none" /\ hist'.failed = "acquire")
          => (err' = "CameraError" /\ phase' = "Opened" /\ self' = self)]_vars

\* C5 as stated (Spec): the SDK backend's constructor refuses a configuration
\* exactly when it has neither a crop nor a resolution, and the frame size
\* of an accepted one is the crop's when a crop is set, else the resolution.
C5_FrameSizeFromCropElseResolution ==
    (backend = "Sentech" /\ self # <<>>)
        => /\ (err = "CameraError") <=> (~Truthy(args.crop) /\ ~Truthy(args.resolution))
           /\ phase # "NoObject" =>
                self.im_size = IF Truthy(args.crop)
                               THEN <<args.crop[4] - args.crop[3], args.crop[2] - args.crop[1]>>
                               ELSE args.resolution

\* C6 (Spec): an SDK session whose configuration has neither a resolution
\* nor a crop is refused with the camera error by the constructor, and never
\* gets further: no SDK system object is made, no camera handle obtained, no
\* setting applied, no device taken, and the object holds no handle.
C6_ConfigurationFailureLeavesNoTrace ==
    (backend = "Sentech" /\ ~Truthy(args.resolution) /\ ~Truthy(args.crop))
        => /\ phase = "NoObject"
           /\ self # <<>> => err = "CameraError"
           /\ hw.systems = 0 /\ hw.cameras = 0 /\ hw.applied = {} /\ hw.inUse = {}
           /\ ~HasAttr(self, "cap")

\* C6's case: the constructor has run on such a configuration and raised.
C6_Witness ==
    /\ backend = "Sentech" /\ ~Truthy(args.resolution) /\ ~Truthy(args.crop)
    /\ self # <<>> /\ err = "CameraError"

\* C7 as stated (Spec): the generic backend refuses the file-source marker
\* with the library's camera error, makes no handle and no object, and
\* accepts every other device id.
C7_FileSourceRefusedWithCameraError ==
    backend = "Mac"
        => IF args.device = FileSource
           THEN /\ phase = "NoObject"
                /\ err \in {"none", "CameraError"}
                /\ ~HasAttr(self, "cap")
           ELSE phase = "NoObject" => err = "none"

\* C8 (SpecDiscover): when arg_restrictions has returned, no device is held
\* open (its own handle is released), so that device 0, when present, can be
\* opened, and the session opened on it afterwards holds it open.
C8_DiscoverLeavesNothingOpen ==
    disc.pc = "done"
        => /\ ~disc.cap.open
           /\ phase \in {"NoObject", "Constructed"}
                => (hw.inUse = {} /\ (0 \in hw.present => VideoCapture_open(0)))
           /\ (phase = "Opened" /\ 0 \in hw.present) => self.cap.open

\* C8's case: arg_restrictions opened several devices, and has returned.
C8_Witness ==
    /\ disc.pc = "done" /\ Cardinality(disc.opened) >= 2
    /\ 0 \in hw.present /\ phase = "Opened"

\* The pixel at row i, column j of the raw frame f turned by the angle
PixelOfRotated(f, angle, i, j) ==
    IF angle = 0 THEN f.px[i][j] ELSE f.px[f.h - j + 1][i]
RotatedRows(f, angle) == IF angle = 0 THEN f.h ELSE f.w
RotatedCols(f, angle) == IF angle = 0 THEN f.w ELSE f.h

\* The frame returned is the raw frame rotated as configured, then cropped
\* as configured (rows [t, b), columns [l, r) of the rotated frame).
ReturnedIsRotatedThenCropped ==
    LET c == IF Truthy(self.crop) THEN self.crop
             ELSE <<0, RotatedCols(raw, self.rotate), 0, RotatedRows(raw, self.rotate)>>
        rows == Min(c[4], RotatedRows(raw, self.rotate)) - c[3]
        cols == Min(c[2], RotatedCols(raw, self.rotate)) - c[1]
    IN /\ ret.frame.h = rows /\ ret.frame.w = cols
       /\ \A i \in 1..rows, j \in 1..cols :
            ret.frame.px[i][j] = PixelOfRotated(raw, self.rotate, c[3] + i, c[1] + j)

\* A frame has been returned and the last one returned is that of raw.
Returned == hist.count >= 1 /\ pc # "stamp"

\* C9 as stated (Spec): on either backend the frame returned is the raw
\* frame rotated and then cropped as configured.
C9_EveryReturnedFrameIsNormalized ==
    Returned => ReturnedIsRotatedThenCropped

\* C10 (Spec): on the generic backend, with a crop (l, r, t, b) and a raw
\* frame whose rotated size is at least b rows by r columns, the frame
\* returned has b-t rows and r-l columns, which are rows [t, b) and columns
\* [l, r) of the rotated frame, and a colour frame is in the reference order.
C10_CropShapeAfterRotation ==
    (/\ backend = "Mac" /\ Returned /\ Truthy(self.crop)
     /\ RotatedRows(raw, self.rotate) >= self.crop[4]
     /\ RotatedCols(raw, self.rotate) >= self.crop[2])
        => /\ ret.frame.h = self.crop[4] - self.crop[3]
           /\ ret.frame.w = self.crop[2] - self.crop[1]
           /\ ReturnedIsRotatedThenCropped
           /\ ret.frame.ndim = 3 => ret.frame.order = "BGR"

\* C10's case: a frame turned a quarter, large enough when turned, cropped
\* to a rectangle that is not square.
C10_Witness ==
    /\ backend = "Mac" /\ Returned /\ Truthy(self.crop)
    /\ self.rotate = 90
    /\ RotatedRows(raw, self.rotate) >= self.crop[4]
    /\ RotatedCols(raw, self.rotate) >= self.crop[2]
    /\ ret.frame.h # ret.frame.w
    /\ ret.frame.ndim = 3 /\ raw.order = "RGB"

\* C11 as stated (Spec): on the generic backend the file flag is never set,
\* and the timestamp returned with a frame is the clock's value at the moment
\* cap.read() returned, nothing of the pipeline lying between the two.
C11_DirectBlockingStampsTheReadReturn ==
    (backend = "Mac" /\ phase # "NoObject")
        => /\ ~self.video
           /\ Returned => ret.timestamp = hist.acqAt

\* C12 as stated (Spec), for the calls whose acquisition succeeded (the kind
\* of a failed acquisition is C4's subject): on an opened SDK session of any
\* accepted configuration, fps None included, such a call ends by returning
\* the pair, and no failure after the acquisition discards the frame.
C12_AcquiredFrameIsReturned ==
    (/\ backend = "Sentech" /\ phase = "Opened" /\ pc = "idle"
     /\ hist.acq >= 1 /\ hist.failed # "acquire")
        => /\ err = "none" /\ hist.failed = "none"
           /\ hist.count >= 1 /\ ret.timestamp = hist.pollAt

\* The SDK session has just delivered a frame.
JustDelivered ==
    /\ backend = "Sentech" /\ pc = "idle"
    /\ hist.count >= 1 /\ hist.failed = "none"

\* C13 as stated (SpecPacing): after a delivery, however long the grab took,
\* next_frame is at least half a period later than the moment the update was
\* made, which is the moment the grab returned.
C13_NextSlotHalfPeriodAfterUpdate ==
    JustDelivered
        => 2 * self.fps * (self.next_frame - hist.acqAt) >= TicksPerSecond

\* C13 amended (SpecPacing): after a delivery, next_frame is at least half a
\* period later than the clock value the poll read before the grab; the
\* update is made after the grab, later by the time the grab took.
C13_NextSlotHalfPeriodAfterPoll ==
    JustDelivered
        => /\ 2 * self.fps * (self.next_frame - hist.pollAt) >= TicksPerSecond
           /\ hist.pollAt <= hist.acqAt

\* C13's case: a grab that took longer than half a period, after which the
\* next slot is less than half a period away from the update.
C13_Witness ==
    /\ JustDelivered /\ hist.count >= 2
    /\ 2 * self.fps * (hist.acqAt - hist.pollAt) > TicksPerSecond
    /\ 2 * self.fps * (self.next_frame - hist.acqAt) < TicksPerSecond

\* C14 as stated (SpecPacing): the timestamp returned is the time right
\* after next_frame was computed, is not later than the acquisition, is the
\* value the update formula used, and is past the next_frame the call found.
C14_TimestampIsTheUpdateTime ==
    JustDelivered
        => /\ ret.timestamp = hist.acqAt
           /\ ret.timestamp > hist.prevNext
           /\ 2 * self.fps * self.next_frame
                = Max(2 * self.fps * hist.prevNext + 2 * TicksPerSecond,
                      2 * self.fps * ret.timestamp + TicksPerSecond)

\* C14 amended (SpecPacing): the timestamp returned is the clock value read
\* by the poll that ended the wait, before the grab and before next_frame is
\* computed; it is the value the update formula used, and is past the
\* next_frame the call found.
C14_TimestampIsThePollTime ==
    JustDelivered
        => /\ ret.timestamp = hist.pollAt
           /\ ret.timestamp <= hist.acqAt
           /\ ret.timestamp > hist.prevNext
           /\ 2 * self.fps * self.next_frame
                = Max(2 * self.fps * hist.prevNext + 2 * TicksPerSecond,
                      2 * self.fps * ret.timestamp + TicksPerSecond)

\* C14's case: a delivery after a wait, whose grab took time.
C14_Witness ==
    /\ JustDelivered /\ hist.count >= 2
    /\ hist.prevNext > hist.prevTs
    /\ ret.timestamp < hist.acqAt

\* C15 (Spec): a call starts at most one acquisition; the SDK backend starts
\* it only when the clock value it read is past next_frame; and a failed
\* acquisition ends the call with the error, without another poll.
C15_NoInternalRetry ==
    /\ hist.acq <= 1
    /\ pc \in {"grab", "read", "stamp"} => hist.acq = 1
    /\ pc = "grab" => (cur_time > self.next_frame /\ cur_time = hist.pollAt)
    /\ pc \in {"loop", "spin"} => (hist.acq = 0 /\ hist.failed = "none")
    /\ hist.failed = "acquire" => (pc = "idle" /\ err # "none" /\ hist.acq = 1)

\* C15's case: a call made after a delivery, whose poll came past next_frame
\* later than the session's first call, and whose acquisition failed.
C15_Witness ==
    /\ backend = "Sentech" /\ pc = "idle"
    /\ hist.count >= 1 /\ hist.failed = "acquire"
    /\ hist.pollAt > hist.t0 /\ hist.pollAt > hist.lastTs

\* C16 (SpecLive): on an opened SDK session with a positive fps, a clock that
\* advances and a grab that returns, every call leaves the loop, grabs and
\* returns its pair; and a poll that finds the time too early reads a clock
\* value no more than one period after the previous delivery's poll time.
C16_EveryCallReturnsWithinAPeriod ==
    /\ [](pc = "spin" => /\ hist.count >= 1
                         /\ cur_time <= self.next_frame
                         /\ self.fps * (cur_time - hist.lastTs) <= TicksPerSecond)
    /\ (pc \in {"loop", "spin"}) ~> (pc = "grab")
    /\ (pc = "grab") ~> (pc = "idle" /\ hist.failed = "none" /\ err = "none")

\* C16's case: a call that waited in the loop up to its slot, then grabbed
\* and returned, after the caller had been late once.
C16_Witness ==
    /\ JustDelivered /\ hist.count >= 3 /\ ~hist.btb
    /\ hist.pollAt = hist.prevNext + 1
    /\ self.fps * (hist.pollAt - hist.prevTs) = TicksPerSecond

\* C17 as stated (SpecDiscover): when arg_restrictions has returned, the
\* indices it tried to open are 0, 1, 2, ... in this order, every one but
\* the last opened and the last did not, and the indices it lists as
\* available are exactly those it opened.
C17_DiscoverProbesFromZero ==
    disc.pc = "done"
        => /\ Len(disc.probed) >= 1
           /\ \A i \in 1..Len(disc.probed) :
                /\ disc.probed[i] = i - 1
                /\ (disc.probed[i] \in disc.opened) <=> (i < Len(disc.probed))
           /\ {disc.devs[i] : i \in 1..Len(disc.devs)} = disc.opened

\* C18 as stated (Spec): a session is Opened only while its device handle is
\* open on a device that is there (set_capture_device reports success only
\* then), and once closed its handle is released.
C18_OpenedOnlyWithOpenHandle ==
    /\ phase = "Opened"
        => (self.cap.open /\ self.cap.dev \in hw.present /\ self.cap.dev \in hw.inUse)
    /\ phase = "Closed"
        => (~self.cap.open /\ self.cap.dev \notin hw.inUse)

\* The attributes of a session that are not configuration: the handle, the
\* channel order the device reported, and the pacing variable.
SessionState == {"cap", "cv2_color", "next_frame", "last_cap_read"}

\* A step of a constructed session keeps the arguments and every attribute
\* that is not session state, and adds none.
ConfigurationKept ==
    phase \in {"Constructed", "Opened", "Closed"}
        => /\ args' = args
           /\ DOMAIN self' \subseteq DOMAIN self \cup SessionState
           /\ \A f \in DOMAIN self \ SessionState :
                f \in DOMAIN self' /\ self'[f] = self[f]

\* C19 (Spec): once the object is constructed its configuration is what the
\* constructor stored from its arguments (the frame size, derived from them,
\* is C5's subject), and no step of set_capture_device,
\* get_image_on_time (returning or failing) or close_capture_device changes
\* an attribute other than the handle, the channel order and the pacing
\* variable, or adds one.
C19_ConfigurationIsImmutable ==
    /\ [](phase \in {"Constructed", "Opened", "Closed"}
            => /\ self.id = args.device /\ self.fps = args.fps
               /\ self.exposure = args.exposure /\ self.gain = args.gain
               /\ self.rotate = args.rotate /\ self.crop = args.crop
               /\ self.use_tk_display = args.display
               /\ backend = "Mac" => self.auto_exposure = args.auto_exposure
               /\ "im_size" \in DOMAIN self)
    /\ [][ConfigurationKept]_vars

\* C19's case: a session with every option set that was opened, delivered a
\* frame, had a call fail, and was closed.
C19_Witness ==
    /\ phase = "Closed" /\ hist.count >= 1 /\ err # "none"
    /\ args.fps # None /\ Truthy(args.crop) /\ args.gain # None
=============================================================================
